---------------------------- MODULE Spec2Model ----------------------------
(***************************************************************************)
(* Model of the requirement decomposition pipeline:                        *)
(*   requirement_decomposer.py  (decomposer batch driver)                  *)
(*   evaluater.py               (evaluator batch driver)                   *)
(* JSON texts are sequences of lexical tokens; json.loads / json.dump are  *)
(* modelled by a recursive-descent parser and a serializer over them.      *)
(***************************************************************************)
EXTENDS FiniteSets, Integers, Sequences, TLC

(***************************************************************************)
(* Bounds of the model.                                                    *)
(***************************************************************************)
\* largest number of records in data.json
MaxRows == 2
\* largest number of items in a hand-made decomposed_output.json
MaxItems == 2
\* largest number of symbols in a text given to extract_content
MaxText == 4
\* largest number of items in a descriptions file read by metrics.py
MaxDescs == 2
\* largest number of data rows in the sheet read by process_excel_file
MaxSheet == 3

(***************************************************************************)
(* Python / JSON values.  None and JSON null are the same value.           *)
(***************************************************************************)
JNull == [t |-> "null", v |-> 0]
JBool(b) == [t |-> "bool", v |-> b]
JInt(n) == [t |-> "int", v |-> n]
JStr(s) == [t |-> "str", v |-> s]
JArr(s) == [t |-> "arr", v |-> s]
\* a dict: insertion-ordered sequence of entries with distinct keys
JObj(es) == [t |-> "obj", v |-> es]
Entry(k, x) == [key |-> k, val |-> x]

\* a Python str holding a JSON text (file content, LLM response content)
PyText(toks) == [t |-> "text", v |-> toks]

IsList(x) == x.t = "arr"
IsDict(x) == x.t = "obj"

\* Python truth value of an object (bool(x))
Truthy(x) ==
    CASE x.t = "null" -> FALSE
      [] x.t = "bool" -> x.v
      [] x.t = "int" -> x.v # 0
      [] x.t = "str" -> x.v # ""
      [] x.t = "arr" -> Len(x.v) > 0
      [] x.t = "obj" -> Len(x.v) > 0
      [] x.t = "text" -> Len(x.v) > 0
      [] x.t = "chars" -> Len(x.v) > 0

\* key in d
DictHas(d, k) == \E j \in 1..Len(d.v) : d.v[j].key = k

\* d.get(k): the value stored under k, None when the key is absent
DictGet(d, k) ==
    IF DictHas(d, k)
    THEN d.v[CHOOSE j \in 1..Len(d.v) : d.v[j].key = k].val
    ELSE JNull

\* d[k] = x: overwrite in place when the key exists, append otherwise
DictSet(d, k, x) ==
    IF DictHas(d, k)
    THEN JObj([j \in 1..Len(d.v) |->
                 IF d.v[j].key = k THEN Entry(k, x) ELSE d.v[j]])
    ELSE JObj(Append(d.v, Entry(k, x)))

(***************************************************************************)
(* JSON texts as token sequences.                                          *)
(***************************************************************************)
Tok(k, s, n) == [k |-> k, s |-> s, n |-> n]
Punct(c) == Tok(c, "", 0)
TStr(s) == Tok("str", s, 0)
TInt(n) == Tok("int", "", n)
\* a lexeme that is not JSON (prose, a markdown fence, ...)
TBad == Tok("bad", "", 0)

ParseFail == [ok |-> FALSE, val |-> JNull, pos |-> 0]
ParseOk(x, p) == [ok |-> TRUE, val |-> x, pos |-> p]

RECURSIVE ParseValue(_, _)
RECURSIVE ParseElems(_, _, _)
RECURSIVE ParseMembers(_, _, _)

RECURSIVE ParseElemsPrepend(_, _, _)
\* ParseElems collecting each element in front of the earlier ones
ParseElemsPrepend(txt, p, acc) ==
    LET r == ParseValue(txt, p) IN
    IF ~r.ok \/ r.pos > Len(txt) THEN ParseFail
    ELSE IF txt[r.pos].k = "," THEN ParseElemsPrepend(txt, r.pos + 1, <<r.val>> \o acc)
    ELSE IF txt[r.pos].k = "]" THEN ParseOk(JArr(<<r.val>> \o acc), r.pos + 1)
    ELSE ParseFail

\* elements of an array after "[" (at least one element expected at p)
ParseElems(txt, p, acc) ==
    LET r == ParseValue(txt, p) IN
    IF ~r.ok \/ r.pos > Len(txt) THEN ParseFail
    ELSE IF txt[r.pos].k = "," THEN ParseElems(txt, r.pos + 1, Append(acc, r.val))
    ELSE IF txt[r.pos].k = "]" THEN ParseOk(JArr(Append(acc, r.val)), r.pos + 1)
    ELSE ParseFail

\* members of an object after "{" (at least one member expected at p);
\* a repeated key keeps its first position and takes the last value
ParseMembers(txt, p, acc) ==
    IF p + 1 > Len(txt) \/ txt[p].k # "str" \/ txt[p + 1].k # ":" THEN ParseFail
    ELSE LET r == ParseValue(txt, p + 2) IN
         IF ~r.ok \/ r.pos > Len(txt) THEN ParseFail
         ELSE IF txt[r.pos].k = ","
              THEN ParseMembers(txt, r.pos + 1, DictSet(acc, txt[p].s, r.val))
         ELSE IF txt[r.pos].k = "}"
              THEN ParseOk(DictSet(acc, txt[p].s, r.val), r.pos + 1)
         ELSE ParseFail

\* one JSON value starting at position p
ParseValue(txt, p) ==
    IF p > Len(txt) THEN ParseFail
    ELSE LET k == txt[p].k IN
         CASE k = "str" -> ParseOk(JStr(txt[p].s), p + 1)
           [] k = "int" -> ParseOk(JInt(txt[p].n), p + 1)
           [] k = "null" -> ParseOk(JNull, p + 1)
           [] k = "true" -> ParseOk(JBool(TRUE), p + 1)
           [] k = "false" -> ParseOk(JBool(FALSE), p + 1)
           [] k = "[" ->
                IF p + 1 <= Len(txt) /\ txt[p + 1].k = "]"
                THEN ParseOk(JArr(<<>>), p + 2)
                ELSE ParseElems(txt, p + 1, <<>>)
           [] k = "{" ->
                IF p + 1 <= Len(txt) /\ txt[p + 1].k = "}"
                THEN ParseOk(JObj(<<>>), p + 2)
                ELSE ParseMembers(txt, p + 1, JObj(<<>>))
           [] OTHER -> ParseFail

\* json.loads(txt): [ok |-> FALSE] stands for JSONDecodeError; text left
\* over after the first value is an error ("Extra data")
JsonLoads(txt) ==
    LET r == ParseValue(txt, 1) IN
    IF r.ok /\ r.pos = Len(txt) + 1 THEN r ELSE ParseFail

RECURSIVE JsonDumps(_)
RECURSIVE DumpElems(_, _)
RECURSIVE DumpMembers(_, _)

DumpElems(s, j) ==
    IF j > Len(s) THEN <<>>
    ELSE (IF j > 1 THEN <<Punct(",")>> ELSE <<>>) \o JsonDumps(s[j]) \o DumpElems(s, j + 1)

DumpMembers(es, j) ==
    IF j > Len(es) THEN <<>>
    ELSE (IF j > 1 THEN <<Punct(",")>> ELSE <<>>)
         \o <<TStr(es[j].key), Punct(":")>> \o JsonDumps(es[j].val)
         \o DumpMembers(es, j + 1)

\* json.dump(x): the text of a value, dict members in insertion order
JsonDumps(x) ==
    CASE x.t = "null" -> <<Punct("null")>>
      [] x.t = "bool" -> <<Punct(IF x.v THEN "true" ELSE "false")>>
      [] x.t = "int" -> <<TInt(x.v)>>
      [] x.t = "str" -> <<TStr(x.v)>>
      [] x.t = "arr" -> <<Punct("[")>> \o DumpElems(x.v, 1) \o <<Punct("]")>>
      [] x.t = "obj" -> <<Punct("{")>> \o DumpMembers(x.v, 1) \o <<Punct("}")>>


(***************************************************************************)
(* Files: a path either does not exist or holds a text.                    *)
(***************************************************************************)
NoFile == [exists |-> FALSE, text |-> <<>>]
FileOf(txt) == [exists |-> TRUE, text |-> txt]

(***************************************************************************)
(* Input data.                                                             *)
(***************************************************************************)
ReqRecord(row, req) == JObj(<<Entry("row", row), Entry("req", req)>>)

\* records met in data.json: row number None, 0 or positive, text empty or not
ReqRecords ==
    {ReqRecord(JNull, JStr("a")), ReqRecord(JInt(0), JStr("a")),
     ReqRecord(JInt(1), JStr("")), ReqRecord(JInt(1), JStr("a")),
     ReqRecord(JInt(2), JStr("a"))}

SeqsUpTo(S, n) == UNION {[1..m -> S] : m \in 0..n}

SubReq(id, d) == JObj(<<Entry("id", JStr(id)), Entry("description", JStr(d))>>)

\* data.json files that load_requirements_from_json rejects
BadDataFiles ==
    << NoFile,
       FileOf(<<TBad>>),
       FileOf(JsonDumps(ReqRecord(JInt(1), JStr("a")))),
       FileOf(JsonDumps(JArr(<<JObj(<<Entry("row", JInt(1))>>)>>))),
       FileOf(JsonDumps(JArr(<<JInt(1)>>))) >>

\* sub-requirement lists as the schema describes them
WellFormedLists ==
    << <<>>,
       <<SubReq("1", "a")>>,
       <<SubReq("2", "b"), SubReq("1", "a")>> >>

\* the well-formed response with two sub-requirements, token by token:
\* [{"id":"1","description":"username login"},{"id":"2","description":"phone login"}]
ExampleResponse ==
    << Punct("["),
       Punct("{"), TStr("id"), Punct(":"), TStr("1"), Punct(","),
       TStr("description"), Punct(":"), TStr("username login"), Punct("}"),
       Punct(","),
       Punct("{"), TStr("id"), Punct(":"), TStr("2"), Punct(","),
       TStr("description"), Punct(":"), TStr("phone login"), Punct("}"),
       Punct("]") >>

\* contents of message.content that the chat endpoint may return
LLMResponses ==
    [j \in 1..Len(WellFormedLists) |-> JsonDumps(JArr(WellFormedLists[j]))]
    \o << ExampleResponse,
          JsonDumps(JArr(<<JObj(<<Entry("id", JStr("1"))>>)>>)),
          JsonDumps(JArr(<<JInt(1)>>)),
          JsonDumps(SubReq("1", "a")),
          JsonDumps(JObj(<<Entry("score", JInt(4)), Entry("justification", JStr("ok"))>>)),
          JsonDumps(JObj(<<Entry("score", JInt(9)), Entry("justification", JStr("ok"))>>)),
          JsonDumps(JObj(<<>>)),
          JsonDumps(JNull),
          <<TBad>>,
          <<Punct("["), Punct("{"), TStr("id"), Punct(":"), TStr("1")>>,
          <<Punct("["), Punct("]"), Punct("["), Punct("]")>>,
          <<>> >>

\* exceptions client.chat.completions.create may raise
APIErrors ==
    {"APIConnectionError", "RateLimitError", "AuthenticationError",
     "APIStatusError", "Exception"}

\* what one request to the chat endpoint comes back with
APIOutcomes ==
    {[kind |-> "content", text |-> LLMResponses[j]] : j \in 1..Len(LLMResponses)}
    \cup {[kind |-> "no_content", text |-> <<>>]}
    \cup {[kind |-> e, text |-> <<>>] : e \in APIErrors}

NoOutcome == [kind |-> "none", text |-> <<>>]

(***************************************************************************)
(* Program state.                                                          *)
(***************************************************************************)
VARIABLES
    prog,                       \* which script runs: "decomposer" / "evaluator"
    pc,                         \* position of main()
    api_key,                    \* os.getenv("OPENAI_API_KEY")
    data_json,                  \* file ar_23/data.json
    decomposed_output_json,     \* file ar_23/decomposed_output.json
    all_original_requirements,  \* main: loaded list
    i,                          \* main: index of the for loop
    row_num,                    \* main: local
    main_requirement,           \* main: local
    api_outcome,                \* outcome of the last chat request
    llm_response_str,           \* decompose_requirement: local
    decomposed_list,            \* main: local
    all_decomposed_results,     \* decomposer main: accumulator
    evaluation_output_json,     \* file ar_23/evaluation_output.json
    original_reqs_map,          \* evaluator main: row -> requirement text
    decomposed_data,            \* evaluator main: loaded decomposition items
    original_req,               \* evaluator main: local
    evaluation,                 \* evaluator main: local
    all_evaluations,            \* evaluator main: accumulator
    invocations,                \* calls of decompose_requirement / evaluate_decomposition
    api_calls,                  \* calls of _call_llm_api
    net_requests,               \* requests sent to the chat endpoint
    in_flight,                  \* requests sent and not yet come back
    request_log,                \* loop indexes of the requests, in sending order
    text,                       \* extract_content: argument
    extracted,                  \* extract_content: returned value
    sheet,                      \* data.xlsx: rows 2.. as [l1, l2] cells
    excel_results,              \* process_excel_file: local results
    descriptions,               \* process_excel_file: local
    last_row_num,               \* process_excel_file: local
    predictions_json,           \* file ar_23/ar_descriptions_1.json
    references_json,            \* file ar_23/ar_descriptions_ref.json
    predictions_map,            \* metrics: local
    references_map,             \* metrics: local
    rows,                       \* metrics: local
    combined_per_row_scores     \* metrics: local

vars == <<prog, pc, api_key, data_json, decomposed_output_json,
          all_original_requirements, i, row_num, main_requirement,
          api_outcome, llm_response_str, decomposed_list,
          all_decomposed_results, evaluation_output_json, original_reqs_map,
          decomposed_data, original_req, evaluation, all_evaluations,
          invocations, api_calls, net_requests, in_flight, request_log,
          text, extracted, sheet, excel_results, descriptions, last_row_num,
          predictions_json, references_json, predictions_map, references_map,
          rows, combined_per_row_scores>>

\* state of the scripts under tools/
tvars == <<text, extracted, sheet, excel_results, descriptions, last_row_num,
           predictions_json, references_json, predictions_map, references_map,
           rows, combined_per_row_scores>>

\* state of the evaluator script only
evars == <<evaluation_output_json, original_reqs_map, decomposed_data,
           original_req, evaluation, all_evaluations>>

\* state of the decomposer script only
dvars == <<all_original_requirements, main_requirement, all_decomposed_results>>

(***************************************************************************)
(* requirement_decomposer.py                                               *)
(***************************************************************************)
\* the list check of load_requirements_from_json / load_original_requirements_from_json
IsReqList(data) ==
    /\ IsList(data)
    /\ \A j \in 1..Len(data.v) :
          IsDict(data.v[j]) /\ DictHas(data.v[j], "row") /\ DictHas(data.v[j], "req")

\* load_requirements_from_json accepting any list of dicts
load_requirements_from_json_no_key_check(f) ==
    IF ~f.exists THEN JNull
    ELSE LET r == JsonLoads(f.text) IN
         IF ~r.ok THEN JNull
         ELSE IF IsList(r.val) /\ (\A j \in 1..Len(r.val.v) : IsDict(r.val.v[j]))
              THEN r.val
         ELSE JNull

\* load_requirements_from_json(file, limit=None)
load_requirements_from_json(f) ==
    IF ~f.exists THEN JNull
    ELSE LET r == JsonLoads(f.text) IN
         IF ~r.ok THEN JNull
         ELSE IF IsReqList(r.val) THEN r.val
         ELSE JNull

\* exception_caught without the closing "except Exception" clause
exception_caught_named_only(e) ==
    \/ e = "APIConnectionError"
    \/ e = "RateLimitError"
    \/ e = "AuthenticationError"
    \/ e = "APIStatusError"

\* _call_llm_api, lines 200-209: the exception meets an except clause
\* (the last clause takes every Exception the named ones did not)
exception_caught(e) ==
    \/ e = "APIConnectionError"
    \/ e = "RateLimitError"
    \/ e = "AuthenticationError"
    \/ e = "APIStatusError"
    \/ e \in APIErrors

\* an exception of the request leaves _call_llm_api
escapes(o) == o.kind \in APIErrors /\ ~exception_caught(o.kind)

\* _call_llm_api once the request has come back
call_llm_api_return(o) ==
    IF o.kind = "content" THEN PyText(o.text) ELSE JNull

\* decompose_parse without the isinstance(..., list) check
decompose_parse_any_json(resp) ==
    IF ~Truthy(resp) THEN JNull
    ELSE LET r == JsonLoads(resp.v) IN
         IF ~r.ok THEN JNull ELSE r.val

\* decompose_requirement from the response on
decompose_parse(resp) ==
    IF ~Truthy(resp) THEN JNull
    ELSE LET r == JsonLoads(resp.v) IN
         IF ~r.ok THEN JNull
         ELSE IF IsList(r.val) THEN r.val
         ELSE JNull

DecompositionResult(row, lst) ==
    JObj(<<Entry("row_number", row), Entry("decomposed_list", lst)>>)

\* collect recording the row number one too high
collect_row_off_by_one(acc, row, lst) ==
    IF Truthy(lst) THEN Append(acc, DecompositionResult(JInt(row.v + 1), lst)) ELSE acc

\* collect appending whatever the call returned
collect_unconditionally(acc, row, lst) ==
    Append(acc, DecompositionResult(row, lst))

\* collect putting the new record in front
collect_prepend(acc, row, lst) ==
    IF Truthy(lst) THEN <<DecompositionResult(row, lst)>> \o acc ELSE acc

\* main, lines 320-329: collect the result of one row
collect(acc, row, lst) ==
    IF Truthy(lst) THEN Append(acc, DecompositionResult(row, lst)) ELSE acc

\* main, line 303: the record is skipped
skip_item(row, req) == ~Truthy(row) \/ ~Truthy(req)

\* the request started as a task that nobody waits for
create_not_awaited(idx) == [pc |-> "loop", i |-> idx + 1]

\* _call_llm_api: "response = await client.chat.completions.create(...)",
\* awaited in turn by decompose_requirement / evaluate_decomposition and by
\* main: the loop stays at the same item until the request has come back
await_create(idx) == [pc |-> "await", i |-> idx]

\* the save placed inside the last turn of the loop
loop_finished_early(idx, lst) == idx >= Len(lst)

\* the for loop over lst has taken its last item
loop_finished(idx, lst) == idx > Len(lst)

\* the variables of the scripts under tools/ when another script runs
ToolsIdle ==
    /\ text = <<>>
    /\ extracted = JNull
    /\ sheet = <<>>
    /\ excel_results = <<>>
    /\ descriptions = <<>>
    /\ last_row_num = 0
    /\ predictions_json = NoFile
    /\ references_json = NoFile
    /\ predictions_map = JNull
    /\ references_map = JNull
    /\ rows = <<>>
    /\ combined_per_row_scores = <<>>

DInit ==
    /\ prog = "decomposer"
    /\ pc = "start"
    /\ api_key \in {"", "sk"}
    /\ \/ \E j \in 1..Len(BadDataFiles) : data_json = BadDataFiles[j]
       \/ \E recs \in SeqsUpTo(ReqRecords, MaxRows) :
             data_json = FileOf(JsonDumps(JArr(recs)))
    /\ decomposed_output_json = NoFile
    /\ all_original_requirements = <<>>
    /\ i = 0
    /\ row_num = JNull
    /\ main_requirement = JNull
    /\ api_outcome = NoOutcome
    /\ llm_response_str = JNull
    /\ decomposed_list = JNull
    /\ all_decomposed_results = <<>>
    /\ evaluation_output_json = NoFile
    /\ original_reqs_map = JNull
    /\ decomposed_data = JNull
    /\ original_req = JNull
    /\ evaluation = JNull
    /\ all_evaluations = <<>>
    /\ invocations = 0
    /\ api_calls = 0
    /\ net_requests = 0
    /\ in_flight = 0
    /\ request_log = <<>>
    /\ ToolsIdle

\* main, lines 286-296: load data.json, abort when nothing was loaded
DLoad ==
    /\ prog = "decomposer" /\ pc = "start"
    /\ LET loaded == load_requirements_from_json(data_json) IN
       IF ~Truthy(loaded)
       THEN /\ pc' = "aborted"
            /\ UNCHANGED <<all_original_requirements, i>>
       ELSE /\ pc' = "loop"
            /\ all_original_requirements' = loaded.v
            /\ i' = 1
    /\ UNCHANGED <<prog, api_key, data_json, decomposed_output_json, row_num,
                   main_requirement, api_outcome, llm_response_str,
                   decomposed_list, all_decomposed_results, invocations,
                   api_calls, net_requests, in_flight, request_log,
                   evars, tvars>>

\* main, lines 299-318: next record; skip it, or call decompose_requirement,
\* which runs up to the request to the chat endpoint (or to the early return
\* of _call_llm_api when the key is missing)
DIter ==
    /\ prog = "decomposer" /\ pc = "loop"
    /\ i <= Len(all_original_requirements)
    /\ LET req_item == all_original_requirements[i]
           row == DictGet(req_item, "row")
           req == DictGet(req_item, "req")
       IN /\ row_num' = row
          /\ main_requirement' = req
          /\ IF skip_item(row, req)
             THEN /\ i' = i + 1
                  /\ UNCHANGED <<pc, api_outcome, llm_response_str, decomposed_list,
                                 all_decomposed_results, invocations, api_calls,
                                 net_requests, in_flight, request_log>>
             ELSE /\ invocations' = invocations + 1
                  /\ api_calls' = api_calls + 1
                  /\ IF api_key = ""
                     THEN /\ api_outcome' = NoOutcome
                          /\ llm_response_str' = JNull
                          /\ decomposed_list' = decompose_parse(JNull)
                          /\ all_decomposed_results' =
                                collect(all_decomposed_results, row, decomposed_list')
                          /\ i' = i + 1
                          /\ UNCHANGED <<pc, net_requests, in_flight, request_log>>
                     ELSE /\ net_requests' = net_requests + 1
                          /\ in_flight' = in_flight + 1
                          /\ request_log' = Append(request_log, i)
                          /\ pc' = await_create(i).pc
                          /\ i' = await_create(i).i
                          /\ UNCHANGED <<api_outcome, llm_response_str,
                                         decomposed_list, all_decomposed_results>>
    /\ UNCHANGED <<prog, api_key, data_json, decomposed_output_json,
                   all_original_requirements, evars, tvars>>

\* the awaited request comes back: rest of _call_llm_api (lines 195-211),
\* of decompose_requirement (227-241) and of the loop body (320-329)
DReturn ==
    /\ prog = "decomposer" /\ pc = "await"
    /\ in_flight' = in_flight - 1
    /\ \E o \in APIOutcomes :
          /\ api_outcome' = o
          /\ IF escapes(o)
             THEN /\ pc' = "crashed"
                  /\ UNCHANGED <<i, llm_response_str, decomposed_list,
                                 all_decomposed_results>>
             ELSE /\ llm_response_str' = call_llm_api_return(o)
                  /\ decomposed_list' = decompose_parse(llm_response_str')
                  /\ all_decomposed_results' =
                        collect(all_decomposed_results, row_num, decomposed_list')
                  /\ i' = i + 1
                  /\ pc' = "loop"
    /\ UNCHANGED <<prog, api_key, data_json, decomposed_output_json,
                   all_original_requirements, row_num, main_requirement,
                   invocations, api_calls, net_requests, request_log, evars, tvars>>

\* save_results_to_json: the file is replaced, or left alone when opening
\* it fails (the exception is caught there)
save_results_to_json(results, f, opened) ==
    IF opened THEN FileOf(JsonDumps(JArr(results))) ELSE f

\* main, lines 331-336: after the loop
DSave ==
    /\ prog = "decomposer" /\ pc = "loop"
    /\ loop_finished(i, all_original_requirements)
    /\ IF Len(all_decomposed_results) > 0
       THEN \E opened \in BOOLEAN :
               decomposed_output_json' =
                  save_results_to_json(all_decomposed_results,
                                       decomposed_output_json, opened)
       ELSE UNCHANGED decomposed_output_json
    /\ pc' = "done"
    /\ UNCHANGED <<prog, api_key, data_json, all_original_requirements, i,
                   row_num, main_requirement, api_outcome, llm_response_str,
                   decomposed_list, all_decomposed_results, invocations,
                   api_calls, net_requests, in_flight, request_log,
                   evars, tvars>>

(***************************************************************************)
(* evaluater.py                                                            *)
(***************************************************************************)
RECURSIVE build_req_map(_, _, _)
\* {item['row']: item['req'] for item in data}: a later record of the same
\* row replaces the text of an earlier one
build_req_map(data, j, acc) ==
    IF j > Len(data) THEN acc
    ELSE build_req_map(data, j + 1,
                       DictSet(acc, DictGet(data[j], "row"), DictGet(data[j], "req")))

\* load_original_requirements_from_json(file)
load_original_requirements_from_json(f) ==
    IF ~f.exists THEN JNull
    ELSE LET r == JsonLoads(f.text) IN
         IF ~r.ok THEN JNull
         ELSE IF IsReqList(r.val) THEN build_req_map(r.val.v, 1, JObj(<<>>))
         ELSE JNull

\* load_decomposed_results(file): whatever JSON value the file holds
load_decomposed_results(f) ==
    IF ~f.exists THEN JNull
    ELSE LET r == JsonLoads(f.text) IN
         IF ~r.ok THEN JNull ELSE r.val

\* _build_evaluation_user_prompt returns: item['description'] can be read
\* for every item of the list (otherwise KeyError / TypeError is raised)
prompt_builds(lst) ==
    /\ IsList(lst)
    /\ \A j \in 1..Len(lst.v) : IsDict(lst.v[j]) /\ DictHas(lst.v[j], "description")

\* evaluate_decomposition from the response on
evaluate_parse(resp) ==
    IF ~Truthy(resp) THEN JNull
    ELSE LET r == JsonLoads(resp.v) IN
         IF ~r.ok THEN JNull ELSE r.val

EvaluationResult(row, ev) ==
    JObj(<<Entry("row_number", row), Entry("evaluation", ev)>>)

\* main, lines 241-248: collect the evaluation of one item
collect_evaluation(acc, row, ev) ==
    IF Truthy(ev) THEN Append(acc, EvaluationResult(row, ev)) ELSE acc

\* the test that never skips
no_original_req_never(req) == FALSE

\* main, lines 226-230: no original requirement was found for the row
no_original_req(req) == ~Truthy(req)

\* data.json files given to the evaluator that load
EvalDataFiles ==
    << FileOf(JsonDumps(JArr(<<ReqRecord(JInt(1), JStr("a"))>>))),
       FileOf(JsonDumps(JArr(<<ReqRecord(JInt(1), JStr("a")),
                               ReqRecord(JInt(2), JStr("a"))>>))),
       FileOf(JsonDumps(JArr(<<ReqRecord(JInt(1), JStr("a")),
                               ReqRecord(JInt(1), JStr(""))>>))),
       FileOf(JsonDumps(JArr(<<>>))) >>

\* items met in decomposed_output.json
DecompItems ==
    {DecompositionResult(JInt(0), JArr(<<SubReq("1", "a")>>)),
     DecompositionResult(JInt(1), JArr(<<>>)),
     DecompositionResult(JInt(1), JArr(<<SubReq("1", "a")>>)),
     DecompositionResult(JInt(2), JArr(<<SubReq("1", "a")>>)),
     DecompositionResult(JInt(1), JArr(<<JObj(<<Entry("id", JStr("1"))>>)>>))}

\* decomposed_output.json files the evaluator cannot use
BadDecomposedFiles == << NoFile, FileOf(<<TBad>>) >>

EInit ==
    /\ prog = "evaluator"
    /\ pc = "start"
    /\ api_key \in {"", "sk"}
    /\ \/ \E j \in 1..Len(BadDataFiles) : data_json = BadDataFiles[j]
       \/ \E j \in 1..Len(EvalDataFiles) : data_json = EvalDataFiles[j]
    /\ \/ \E j \in 1..Len(BadDecomposedFiles) :
             decomposed_output_json = BadDecomposedFiles[j]
       \/ \E items \in SeqsUpTo(DecompItems, MaxItems) :
             decomposed_output_json = FileOf(JsonDumps(JArr(items)))
    /\ all_original_requirements = <<>>
    /\ i = 0
    /\ row_num = JNull
    /\ main_requirement = JNull
    /\ api_outcome = NoOutcome
    /\ llm_response_str = JNull
    /\ decomposed_list = JNull
    /\ all_decomposed_results = <<>>
    /\ evaluation_output_json = NoFile
    /\ original_reqs_map = JNull
    /\ decomposed_data = JNull
    /\ original_req = JNull
    /\ evaluation = JNull
    /\ all_evaluations = <<>>
    /\ invocations = 0
    /\ api_calls = 0
    /\ net_requests = 0
    /\ in_flight = 0
    /\ request_log = <<>>
    /\ ToolsIdle

\* main, lines 208-215: load both files, abort when either gave nothing
ELoad ==
    /\ prog = "evaluator" /\ pc = "start"
    /\ original_reqs_map' = load_original_requirements_from_json(data_json)
    /\ decomposed_data' = load_decomposed_results(decomposed_output_json)
    /\ IF ~Truthy(original_reqs_map') \/ ~Truthy(decomposed_data')
       THEN pc' = "aborted" /\ UNCHANGED i
       ELSE pc' = "loop" /\ i' = 1
    /\ UNCHANGED <<prog, api_key, data_json, decomposed_output_json, row_num,
                   api_outcome, llm_response_str, decomposed_list,
                   evaluation_output_json, original_req, evaluation,
                   all_evaluations, invocations, api_calls, net_requests, in_flight, request_log,
                   dvars, tvars>>

\* main, lines 218-239: next item; skip it, or call evaluate_decomposition,
\* which builds the prompt (an exception raised there leaves main) and runs
\* up to the request to the chat endpoint (or to the early return of
\* _call_llm_api when the key is missing)
EIter ==
    /\ prog = "evaluator" /\ pc = "loop"
    /\ i <= Len(decomposed_data.v)
    /\ LET result_item == decomposed_data.v[i]
           row == DictGet(result_item, "row_number")
           lst == DictGet(result_item, "decomposed_list")
           req == DictGet(original_reqs_map, row)
       IN /\ row_num' = row
          /\ decomposed_list' = lst
          /\ IF ~Truthy(row) \/ ~Truthy(lst)
             THEN /\ i' = i + 1
                  /\ UNCHANGED <<pc, original_req, api_outcome, llm_response_str,
                                 evaluation, all_evaluations, invocations,
                                 api_calls, net_requests, in_flight, request_log>>
             ELSE /\ original_req' = req
                  /\ IF no_original_req(req)
                     THEN /\ i' = i + 1
                          /\ UNCHANGED <<pc, api_outcome, llm_response_str,
                                         evaluation, all_evaluations, invocations,
                                         api_calls, net_requests, in_flight, request_log>>
                     ELSE /\ invocations' = invocations + 1
                          /\ IF ~prompt_builds(lst)
                             THEN /\ pc' = "crashed"
                                  /\ UNCHANGED <<i, api_outcome, llm_response_str,
                                                 evaluation, all_evaluations,
                                                 api_calls, net_requests, in_flight, request_log>>
                             ELSE /\ api_calls' = api_calls + 1
                                  /\ IF api_key = ""
                                     THEN /\ api_outcome' = NoOutcome
                                          /\ llm_response_str' = JNull
                                          /\ evaluation' = evaluate_parse(JNull)
                                          /\ all_evaluations' =
                                                collect_evaluation(all_evaluations,
                                                                   row, evaluation')
                                          /\ i' = i + 1
                                          /\ UNCHANGED <<pc, net_requests, in_flight, request_log>>
                                     ELSE /\ net_requests' = net_requests + 1
                                          /\ in_flight' = in_flight + 1
                                          /\ request_log' = Append(request_log, i)
                                          /\ pc' = await_create(i).pc
                                          /\ i' = await_create(i).i
                                          /\ UNCHANGED <<api_outcome,
                                                         llm_response_str, evaluation,
                                                         all_evaluations>>
    /\ UNCHANGED <<prog, api_key, data_json, decomposed_output_json,
                   evaluation_output_json, original_reqs_map, decomposed_data,
                   dvars, tvars>>

\* the awaited request comes back: rest of _call_llm_api (lines 98-114),
\* of evaluate_decomposition (150-159) and of the loop body (241-248)
EReturn ==
    /\ prog = "evaluator" /\ pc = "await"
    /\ in_flight' = in_flight - 1
    /\ \E o \in APIOutcomes :
          /\ api_outcome' = o
          /\ IF escapes(o)
             THEN /\ pc' = "crashed"
                  /\ UNCHANGED <<i, llm_response_str, evaluation, all_evaluations>>
             ELSE /\ llm_response_str' = call_llm_api_return(o)
                  /\ evaluation' = evaluate_parse(llm_response_str')
                  /\ all_evaluations' =
                        collect_evaluation(all_evaluations, row_num, evaluation')
                  /\ i' = i + 1
                  /\ pc' = "loop"
    /\ UNCHANGED <<prog, api_key, data_json, decomposed_output_json, row_num,
                   decomposed_list, evaluation_output_json, original_reqs_map,
                   decomposed_data, original_req, invocations, api_calls,
                   net_requests, request_log, dvars, tvars>>

\* main, lines 250-261: after the loop; an error raised while opening the
\* output file is not caught
ESave ==
    /\ prog = "evaluator" /\ pc = "loop"
    /\ loop_finished(i, decomposed_data.v)
    /\ IF Len(all_evaluations) > 0
       THEN \E opened \in BOOLEAN :
               IF opened
               THEN /\ evaluation_output_json' = FileOf(JsonDumps(JArr(all_evaluations)))
                    /\ pc' = "done"
               ELSE /\ pc' = "crashed"
                    /\ UNCHANGED evaluation_output_json
       ELSE pc' = "done" /\ UNCHANGED evaluation_output_json
    /\ UNCHANGED <<prog, api_key, data_json, decomposed_output_json, i, row_num,
                   api_outcome, llm_response_str, decomposed_list,
                   original_reqs_map, decomposed_data, original_req, evaluation,
                   all_evaluations, invocations, api_calls, net_requests, in_flight, request_log,
                   dvars, tvars>>

\* the variables of the two batch drivers when a script under tools/ runs
DriversIdle ==
    /\ api_key = ""
    /\ data_json = NoFile
    /\ decomposed_output_json = NoFile
    /\ all_original_requirements = <<>>
    /\ row_num = JNull
    /\ main_requirement = JNull
    /\ api_outcome = NoOutcome
    /\ llm_response_str = JNull
    /\ decomposed_list = JNull
    /\ all_decomposed_results = <<>>
    /\ evaluation_output_json = NoFile
    /\ original_reqs_map = JNull
    /\ decomposed_data = JNull
    /\ original_req = JNull
    /\ evaluation = JNull
    /\ all_evaluations = <<>>
    /\ invocations = 0
    /\ api_calls = 0
    /\ net_requests = 0
    /\ in_flight = 0
    /\ request_log = <<>>

\* what a step of a script under tools/ leaves alone
dridle == <<api_key, data_json, decomposed_output_json, row_num, api_outcome,
            llm_response_str, decomposed_list, invocations, api_calls,
            net_requests, in_flight, request_log, dvars, evars>>

(***************************************************************************)
(* tools/extractor.py: extract_content                                     *)
(* A text is a sequence of symbols: a complete field marker (an opening    *)
(* bracket, a field name, a closing bracket), an opening bracket that      *)
(* starts no marker, a whitespace character, or another character.         *)
(***************************************************************************)
MarkerSym(name) == [k |-> "marker", s |-> name]
OpenSym == [k |-> "open", s |-> ""]
WsSym == [k |-> "ws", s |-> " "]
ChSym(c) == [k |-> "ch", s |-> c]

\* a Python str made of such symbols
PyChars(syms) == [t |-> "chars", v |-> syms]

\* the field name the scripts ask for (the "requirement description" field)
FieldName == "description"

TextSymbols ==
    {MarkerSym(FieldName), MarkerSym("other"), OpenSym, WsSym, ChSym("a")}

\* the symbol begins with an opening bracket
StartsWithOpen(sym) == sym.k = "marker" \/ sym.k = "open"

RECURSIVE SkipWs(_, _)
\* \s* from position p on: the position after the whitespace
SkipWs(txt, p) ==
    IF p <= Len(txt) /\ txt[p].k = "ws" THEN SkipWs(txt, p + 1) ELSE p

RECURSIVE Strip(_)
\* str.strip()
Strip(txt) ==
    IF Len(txt) = 0 THEN txt
    ELSE IF txt[1].k = "ws" THEN Strip(Tail(txt))
    ELSE IF txt[Len(txt)].k = "ws" THEN Strip(SubSeq(txt, 1, Len(txt) - 1))
    ELSE txt

\* the lookahead of the pattern holds at position p: an opening bracket or
\* the end of the string
Lookahead(txt, p) == p > Len(txt) \/ StartsWithOpen(txt[p])

\* extract_content(text, field_name): leftmost match of the marker, greedy
\* whitespace, the shortest group after which whitespace leads to the
\* lookahead, then strip()
extract_content(txt, field_name) ==
    IF \A j \in 1..Len(txt) : txt[j] # MarkerSym(field_name) THEN JNull
    ELSE LET m == CHOOSE j \in 1..Len(txt) :
                     /\ txt[j] = MarkerSym(field_name)
                     /\ \A h \in 1..(j - 1) : txt[h] # MarkerSym(field_name)
             a == SkipWs(txt, m + 1)
             e == CHOOSE p \in a..(Len(txt) + 1) :
                     /\ Lookahead(txt, SkipWs(txt, p))
                     /\ \A h \in a..(p - 1) : ~Lookahead(txt, SkipWs(txt, h))
         IN PyChars(Strip(SubSeq(txt, a, e - 1)))

XInit ==
    /\ prog = "extract"
    /\ pc = "start"
    /\ i = 0
    /\ text \in SeqsUpTo(TextSymbols, MaxText)
    /\ extracted = JNull
    /\ sheet = <<>>
    /\ excel_results = <<>>
    /\ descriptions = <<>>
    /\ last_row_num = 0
    /\ predictions_json = NoFile
    /\ references_json = NoFile
    /\ predictions_map = JNull
    /\ references_map = JNull
    /\ rows = <<>>
    /\ combined_per_row_scores = <<>>
    /\ DriversIdle

\* one call extract_content(text, "需求描述")
XExtract ==
    /\ prog = "extract" /\ pc = "start"
    /\ extracted' = extract_content(text, FieldName)
    /\ pc' = "done"
    /\ UNCHANGED <<prog, i, text, sheet, excel_results, descriptions, last_row_num,
                   predictions_json, references_json, predictions_map,
                   references_map, rows, combined_per_row_scores, dridle>>

(***************************************************************************)
(* tools/metrics.py: load two descriptions files, align them, score.       *)
(* The metric libraries (evaluate, jieba) are outside the repository: a    *)
(* computed score is an opaque value.                                      *)
(***************************************************************************)
\* one item of a descriptions file, as process_json_file writes it
DescItem(row, conc) ==
    JObj(<<Entry("row", JInt(row)), Entry("concatenated", JStr(conc)),
           Entry("description_count", JInt(IF conc = "" THEN 0 ELSE 1))>>)

DescItems == {DescItem(1, "a"), DescItem(2, "a"), DescItem(2, ""), DescItem(3, "a")}

DescFiles == {FileOf(JsonDumps(JArr(items))) : items \in SeqsUpTo(DescItems, MaxDescs)}

RECURSIVE build_desc_map(_, _, _)
RECURSIVE build_desc_map_keep_empty(_, _, _)
build_desc_map_keep_empty(data, j, acc) ==
    IF j > Len(data) THEN acc
    ELSE build_desc_map_keep_empty(data, j + 1,
             DictSet(acc, DictGet(data[j], "row"), DictGet(data[j], "concatenated")))

\* the dict comprehension of load_descriptions: items in file order, an
\* item with a falsy 'concatenated' is left out, a repeated row is overwritten
build_desc_map(data, j, acc) ==
    IF j > Len(data) THEN acc
    ELSE build_desc_map(data, j + 1,
             IF Truthy(DictGet(data[j], "concatenated"))
             THEN DictSet(acc, DictGet(data[j], "row"), DictGet(data[j], "concatenated"))
             ELSE acc)

\* load_descriptions(file_path)
load_descriptions(f) == build_desc_map(JsonLoads(f.text).val.v, 1, JObj(<<>>))

RECURSIVE align(_, _, _, _)
\* the alignment loop: the keys of predictions_map, in its order, that are
\* keys of references_map
align(pmap, rmap, j, acc) ==
    IF j > Len(pmap.v) THEN acc
    ELSE align(pmap, rmap, j + 1,
               IF DictHas(rmap, pmap.v[j].key) THEN Append(acc, pmap.v[j].key) ELSE acc)

\* a value computed by a metric library
Score == [t |-> "float", v |-> 0]

\* the per-row record appended to combined_per_row_scores
RowScores(row) ==
    JObj(<<Entry("row", row), Entry("bert_precision", Score),
           Entry("bert_recall", Score), Entry("bert_f1", Score),
           Entry("rouge-1", Score), Entry("bleu", Score), Entry("meteor", Score)>>)

MInit ==
    /\ prog = "metrics"
    /\ pc = "start"
    /\ i = 0
    /\ text = <<>>
    /\ extracted = JNull
    /\ sheet = <<>>
    /\ excel_results = <<>>
    /\ descriptions = <<>>
    /\ last_row_num = 0
    /\ predictions_json \in DescFiles
    /\ references_json \in DescFiles
    /\ predictions_map = JNull
    /\ references_map = JNull
    /\ rows = <<>>
    /\ combined_per_row_scores = <<>>
    /\ DriversIdle

\* lines 29-47: load both maps, align them, stop when no pair was aligned
MAlign ==
    /\ prog = "metrics" /\ pc = "start"
    /\ predictions_map' = load_descriptions(predictions_json)
    /\ references_map' = load_descriptions(references_json)
    /\ rows' = align(predictions_map', references_map', 1, <<>>)
    /\ pc' = IF rows' = <<>> THEN "terminated" ELSE "scoring"
    /\ UNCHANGED <<prog, i, text, extracted, sheet, excel_results, descriptions,
                   last_row_num, predictions_json, references_json,
                   combined_per_row_scores, dridle>>

\* lines 67-102: one turn of the scoring loop
MScore ==
    /\ prog = "metrics" /\ pc = "scoring"
    /\ i < Len(rows)
    /\ combined_per_row_scores' = Append(combined_per_row_scores, RowScores(rows[i + 1]))
    /\ i' = i + 1
    /\ UNCHANGED <<prog, pc, text, extracted, sheet, excel_results, descriptions,
                   last_row_num, predictions_json, references_json,
                   predictions_map, references_map, rows, dridle>>

\* lines 104-133: after the loop the averages are computed and the scores saved
MFinish ==
    /\ prog = "metrics" /\ pc = "scoring"
    /\ i = Len(rows)
    /\ pc' = "done"
    /\ UNCHANGED <<prog, i, text, extracted, sheet, excel_results, descriptions,
                   last_row_num, predictions_json, references_json,
                   predictions_map, references_map, rows,
                   combined_per_row_scores, dridle>>

(***************************************************************************)
(* tools/extractor.py: process_excel_file                                  *)
(* The sheet is the sequence of its data rows 2..row_end-1, each with the  *)
(* value of its L1 cell and of its L2 cell.                                *)
(***************************************************************************)
SheetRow(l1, l2) == [l1 |-> l1, l2 |-> l2]

L1Cells == {JNull, PyChars(<<ChSym("a")>>)}

L2Cells ==
    {JNull, PyChars(<<ChSym("a")>>),
     PyChars(<<MarkerSym(FieldName), WsSym, ChSym("a")>>)}

Sheets == SeqsUpTo({SheetRow(l1, l2) : l1 \in L1Cells, l2 \in L2Cells}, MaxSheet)

\* get_requirement_from_excel: the stripped text of a non-empty text cell
get_requirement_from_excel(cell) ==
    IF cell.t = "chars" /\ Truthy(cell) THEN PyChars(Strip(cell.v)) ELSE JNull

\* ' '.join(descs) raises TypeError when an element is None
join_raises(descs) == \E j \in 1..Len(descs) : descs[j] = JNull

RECURSIVE join(_)
\* ' '.join(descs)
join(descs) ==
    IF Len(descs) = 0 THEN <<>>
    ELSE IF Len(descs) = 1 THEN descs[1].v
    ELSE descs[1].v \o <<WsSym>> \o join(Tail(descs))

\* the record appended to results
BlockRecord(row, descs) ==
    JObj(<<Entry("row", JInt(row)), Entry("concatenated", PyChars(join(descs))),
           Entry("description_count", JInt(Len(descs)))>>)

KInit ==
    /\ prog = "excel"
    /\ pc = "scan"
    /\ i = 1
    /\ text = <<>>
    /\ extracted = JNull
    /\ sheet \in Sheets
    /\ excel_results = <<>>
    /\ descriptions = <<>>
    /\ last_row_num = 0
    /\ predictions_json = NoFile
    /\ references_json = NoFile
    /\ predictions_map = JNull
    /\ references_map = JNull
    /\ rows = <<>>
    /\ combined_per_row_scores = <<>>
    /\ DriversIdle

\* lines 164-187: one turn of the loop, for row_num = i + 1; the join of a
\* list holding None and the search in a None cell raise TypeError
KRow ==
    /\ prog = "excel" /\ pc = "scan"
    /\ i <= Len(sheet)
    /\ LET excel_row == i + 1
           main_req == get_requirement_from_excel(sheet[i].l1)
           decomposed_requirement == get_requirement_from_excel(sheet[i].l2)
           flush == Truthy(main_req)
           descs == IF flush THEN <<>> ELSE descriptions
       IN IF (flush /\ join_raises(descriptions)) \/ decomposed_requirement = JNull
          THEN /\ pc' = "crashed"
               /\ UNCHANGED <<i, excel_results, descriptions, last_row_num>>
          ELSE /\ excel_results' =
                     IF flush
                     THEN Append(excel_results, BlockRecord(last_row_num, descriptions))
                     ELSE excel_results
               /\ last_row_num' = IF flush THEN excel_row ELSE last_row_num
               /\ descriptions' =
                     Append(descs, extract_content(decomposed_requirement.v, FieldName))
               /\ i' = i + 1
               /\ pc' = pc
    /\ UNCHANGED <<prog, text, extracted, sheet, predictions_json, references_json,
                   predictions_map, references_map, rows,
                   combined_per_row_scores, dridle>>

\* lines 189-195: after the loop the last block is appended
KFinish ==
    /\ prog = "excel" /\ pc = "scan"
    /\ i > Len(sheet)
    /\ IF join_raises(descriptions)
       THEN pc' = "crashed" /\ UNCHANGED excel_results
       ELSE /\ pc' = "done"
            /\ excel_results' = Append(excel_results, BlockRecord(last_row_num, descriptions))
    /\ UNCHANGED <<prog, i, text, extracted, sheet, descriptions, last_row_num,
                   predictions_json, references_json, predictions_map,
                   references_map, rows, combined_per_row_scores, dridle>>

Init == DInit \/ EInit \/ XInit \/ MInit \/ KInit

Next ==
    \/ DLoad \/ DIter \/ DReturn \/ DSave
    \/ ELoad \/ EIter \/ EReturn \/ ESave
    \/ XExtract
    \/ MAlign \/ MScore \/ MFinish
    \/ KRow \/ KFinish

Spec == Init /\ [][Next]_vars

(***************************************************************************)
(* Notions used by the properties.                                         *)
(***************************************************************************)
\* the 'row' values of the records of data.json
InputRowSet ==
    LET r == JsonLoads(data_json.text) IN
    IF data_json.exists /\ r.ok /\ IsReqList(r.val)
    THEN {DictGet(r.val.v[j], "row") : j \in 1..Len(r.val.v)}
    ELSE {}

\* the records read back from an output file
RecordsIn(f) ==
    LET r == JsonLoads(f.text) IN
    IF f.exists /\ r.ok /\ IsList(r.val) THEN r.val.v ELSE <<>>

RowNumbers(records) == {DictGet(records[k], "row_number") : k \in 1..Len(records)}

\* this step ends a call of decompose_requirement / evaluate_decomposition
\* with a returned value
CallReturns ==
    \/ pc = "await" /\ pc' = "loop"
    \/ pc = "loop" /\ pc' = "loop" /\ api_calls' = api_calls + 1

\* the value the call of this row returned
CallResult == IF prog = "decomposer" THEN decomposed_list ELSE evaluation

(***************************************************************************)
(* C1: in the decomposer, the row_number values of the accumulator and of  *)
(* the written output file all occur as 'row' values of data.json.         *)
(***************************************************************************)
C1_OutputRowsSubsetOfInput ==
    prog = "decomposer" =>
        /\ RowNumbers(all_decomposed_results) \subseteq InputRowSet
        /\ RowNumbers(RecordsIn(decomposed_output_json)) \subseteq InputRowSet

\* a finished run with two calls of which one failed: one row was written
C1_Witness ==
    /\ prog = "decomposer" /\ pc = "done"
    /\ invocations = 2
    /\ Len(RecordsIn(decomposed_output_json)) = 1
    /\ RowNumbers(RecordsIn(decomposed_output_json)) # InputRowSet

(***************************************************************************)
(* C2: in both drivers a call that returns None leaves the accumulators    *)
(* and the output files as they were, and an output file, when written,    *)
(* holds exactly the records of the accumulator.                           *)
(***************************************************************************)
C2_NoRecordForAbsentResult ==
    [][ /\ (CallReturns /\ CallResult' = JNull) =>
              UNCHANGED <<all_decomposed_results, all_evaluations,
                          decomposed_output_json, evaluation_output_json>>
        /\ (prog = "decomposer" /\ decomposed_output_json' # decomposed_output_json) =>
              RecordsIn(decomposed_output_json') = all_decomposed_results
        /\ (evaluation_output_json' # evaluation_output_json) =>
              RecordsIn(evaluation_output_json') = all_evaluations
      ]_vars

\* a request failed after an earlier row had been collected
C2_Witness ==
    /\ prog = "decomposer" /\ pc = "loop"
    /\ api_outcome.kind \in APIErrors
    /\ decomposed_list = JNull
    /\ Len(all_decomposed_results) = 1

(***************************************************************************)
(* C3: once the files are loaded no row stops a driver: main does not end  *)
(* with an exception before the loop over the rows has finished.           *)
(***************************************************************************)
C3_NoRowFailureIsFatal ==
    pc = "crashed" => (prog = "evaluator" /\ i > Len(decomposed_data.v))

(***************************************************************************)
(* C4: decompose_requirement calls _call_llm_api exactly once and sends at *)
(* most one request, and it returns the parsed value exactly when the      *)
(* response text parses as JSON to an array, None otherwise.               *)
(***************************************************************************)
C4_OneCallParsedIffArray ==
    /\ [](prog = "decomposer" =>
            (api_calls = invocations /\ net_requests <= invocations))
    /\ [][ (prog = "decomposer" /\ CallReturns) =>
              LET r == JsonLoads(api_outcome'.text)
                  isArray == api_outcome'.kind = "content" /\ r.ok /\ IsList(r.val)
              IN /\ (decomposed_list' # JNull) <=> isArray
                 /\ isArray => decomposed_list' = r.val
                 /\ pc = "await" => UNCHANGED <<api_calls, net_requests>>
         ]_vars

\* a response that is a JSON object was turned down after one request
C4_Witness ==
    /\ prog = "decomposer" /\ pc = "loop"
    /\ api_outcome.kind = "content"
    /\ JsonLoads(api_outcome.text).ok
    /\ IsDict(JsonLoads(api_outcome.text).val)
    /\ decomposed_list = JNull
    /\ net_requests = 1

(***************************************************************************)
(* C5: in both scripts every failure of the taxonomy (an exception of the  *)
(* request, a response that is not JSON, a missing key) ends the call with *)
(* None and main goes on; with a missing key no request is sent.           *)
(***************************************************************************)
FailureOutcome(o) ==
    \/ o.kind \in APIErrors
    \/ o.kind = "content" /\ ~JsonLoads(o.text).ok

C5_FailuresCollapseToNone ==
    /\ [](api_key = "" => net_requests = 0)
    /\ [][ /\ pc = "await" =>
                /\ pc' = "loop"
                /\ FailureOutcome(api_outcome') => CallResult' = JNull
           /\ (CallReturns /\ api_key = "") => CallResult' = JNull
         ]_vars

\* the evaluator met a rate limit and went on
C5_Witness ==
    /\ prog = "evaluator" /\ pc = "loop"
    /\ api_outcome.kind = "RateLimitError"
    /\ evaluation = JNull

(***************************************************************************)
(* C6: every call of the decomposer that returns a list, the empty list    *)
(* included, appends exactly one record {row_number, decomposed_list} to   *)
(* the accumulator, and no record there changes afterwards.                *)
(***************************************************************************)
C6_EveryReturnedListCollected ==
    [][ /\ (prog = "decomposer" /\ CallReturns /\ IsList(decomposed_list')) =>
              all_decomposed_results' =
                 Append(all_decomposed_results,
                        DecompositionResult(row_num', decomposed_list'))
        /\ \A k \in 1..Len(all_decomposed_results) :
              /\ Len(all_decomposed_results') >= k
              /\ all_decomposed_results'[k] = all_decomposed_results[k]
      ]_vars

(***************************************************************************)
(* C7: for a response that is a well-formed array of n {id, description}   *)
(* records decompose_requirement returns these n records, in the order of  *)
(* the response and with their ids.                                        *)
(***************************************************************************)
C7_WellFormedArrayReturnedInOrder ==
    (prog = "decomposer" /\ api_outcome.kind = "content") =>
        /\ \A j \in 1..Len(WellFormedLists) :
              api_outcome.text = JsonDumps(JArr(WellFormedLists[j])) =>
                 /\ IsList(decomposed_list)
                 /\ decomposed_list.v = WellFormedLists[j]
        /\ api_outcome.text = ExampleResponse =>
              /\ IsList(decomposed_list)
              /\ Len(decomposed_list.v) = 2
              /\ DictGet(decomposed_list.v[1], "id") = JStr("1")
              /\ DictGet(decomposed_list.v[2], "id") = JStr("2")
              /\ DictGet(decomposed_list.v[1], "description") = JStr("username login")
              /\ DictGet(decomposed_list.v[2], "description") = JStr("phone login")

\* the two-record example response was returned
C7_Witness ==
    /\ prog = "decomposer" /\ pc = "loop"
    /\ api_outcome.text = ExampleResponse
    /\ IsList(decomposed_list)
    /\ Len(decomposed_list.v) = 2

(***************************************************************************)
(* C8: every record of the evaluation accumulator and output file is       *)
(* {row_number: int, evaluation: {score: int in 1..5, justification: str}}.*)
(***************************************************************************)
IsEvaluationRecord(rec) ==
    /\ IsDict(rec)
    /\ DictGet(rec, "row_number").t = "int"
    /\ LET ev == DictGet(rec, "evaluation") IN
          /\ IsDict(ev)
          /\ DictGet(ev, "score").t = "int"
          /\ DictGet(ev, "score").v \in 1..5
          /\ DictGet(ev, "justification").t = "str"

C8_EvaluationRecordShape ==
    /\ \A k \in 1..Len(all_evaluations) : IsEvaluationRecord(all_evaluations[k])
    /\ \A k \in 1..Len(RecordsIn(evaluation_output_json)) :
          IsEvaluationRecord(RecordsIn(evaluation_output_json)[k])

(***************************************************************************)
(* C9: every record of the decomposition accumulator and output file is    *)
(* {row_number: int, decomposed_list: array} and every element of the      *)
(* array is an object with a string 'id' and a string 'description'.       *)
(***************************************************************************)
IsDecompositionRecord(rec) ==
    /\ IsDict(rec)
    /\ DictGet(rec, "row_number").t = "int"
    /\ LET lst == DictGet(rec, "decomposed_list") IN
          /\ IsList(lst)
          /\ \A j \in 1..Len(lst.v) :
                /\ IsDict(lst.v[j])
                /\ DictGet(lst.v[j], "id").t = "str"
                /\ DictGet(lst.v[j], "description").t = "str"

C9_DecompositionRecordShape ==
    prog = "decomposer" =>
        /\ \A k \in 1..Len(all_decomposed_results) :
              IsDecompositionRecord(all_decomposed_results[k])
        /\ \A k \in 1..Len(RecordsIn(decomposed_output_json)) :
              IsDecompositionRecord(RecordsIn(decomposed_output_json)[k])

(***************************************************************************)
(* C10: the decomposer skips a record exactly when its row number is       *)
(* missing (None) or its requirement text is empty; every other record,    *)
(* row number 0 included, gets exactly one call of decompose_requirement,  *)
(* and a skipped record gets no call, no request and no output record.     *)
(***************************************************************************)
C10_SkipsExactlyMissingRowOrEmptyText ==
    [][ (prog = "decomposer" /\ pc = "loop" /\ i <= Len(all_original_requirements)) =>
           LET req_item == all_original_requirements[i]
               missing == \/ DictGet(req_item, "row") = JNull
                          \/ DictGet(req_item, "req") = JStr("")
           IN IF missing
              THEN UNCHANGED <<invocations, api_calls, net_requests,
                               all_decomposed_results>>
              ELSE invocations' = invocations + 1
      ]_vars

(***************************************************************************)
(* C11: when an input file cannot be loaded the driver aborts at once, with *)
(* no call, no request and no output file; and it aborts for no other      *)
(* reason.                                                                 *)
(***************************************************************************)
\* data.json is missing, is not JSON or is not a list of row/req records
DataUnloadable ==
    \/ ~data_json.exists
    \/ ~JsonLoads(data_json.text).ok
    \/ ~IsReqList(JsonLoads(data_json.text).val)

\* decomposed_output.json is missing or is not JSON
DecomposedUnloadable ==
    \/ ~decomposed_output_json.exists
    \/ ~JsonLoads(decomposed_output_json.text).ok

LoadFailure ==
    IF prog = "decomposer" THEN DataUnloadable
    ELSE DataUnloadable \/ DecomposedUnloadable

\* a file loaded, but what it holds is empty
EmptyInput ==
    \/ ~DataUnloadable /\ Len(JsonLoads(data_json.text).val.v) = 0
    \/ /\ prog = "evaluator"
       /\ ~DecomposedUnloadable
       /\ ~Truthy(JsonLoads(decomposed_output_json.text).val)

NothingDone ==
    /\ invocations = 0 /\ api_calls = 0 /\ net_requests = 0
    /\ prog = "decomposer" => decomposed_output_json = NoFile
    /\ prog = "evaluator" => evaluation_output_json = NoFile

C11_AbortOnlyOnLoadFailure ==
    (prog \in {"decomposer", "evaluator"} /\ pc # "start") =>
        /\ LoadFailure => (pc = "aborted" /\ NothingDone)
        /\ pc = "aborted" => LoadFailure

\* C11 as amended: the driver aborts exactly when a file cannot be loaded
\* or a loaded input is empty, and an aborted run has done nothing.
C11_AbortOnLoadFailureOrEmptyInput ==
    (prog \in {"decomposer", "evaluator"} /\ pc # "start") =>
        /\ (pc = "aborted") <=> (LoadFailure \/ EmptyInput)
        /\ pc = "aborted" => NothingDone

\* the evaluator aborted on an unusable decomposed_output.json
C11_Witness ==
    /\ prog = "evaluator" /\ pc = "aborted"
    /\ ~DataUnloadable /\ DecomposedUnloadable

(***************************************************************************)
(* C12: extract_content returns the trimmed text between the first marker  *)
(* of the field and the next complete marker (or the end of the text), and *)
(* None exactly when the text holds no marker of the field.                *)
(***************************************************************************)
\* the text between the first marker of the field and the next marker
BetweenMarkers(txt, field_name) ==
    LET m == CHOOSE j \in 1..Len(txt) :
                /\ txt[j] = MarkerSym(field_name)
                /\ \A h \in 1..(j - 1) : txt[h] # MarkerSym(field_name)
        q == CHOOSE p \in (m + 1)..(Len(txt) + 1) :
                /\ p > Len(txt) \/ txt[p].k = "marker"
                /\ \A h \in (m + 1)..(p - 1) : txt[h].k # "marker"
    IN SubSeq(txt, m + 1, q - 1)

HasMarker(txt, field_name) == \E j \in 1..Len(txt) : txt[j] = MarkerSym(field_name)

C12_ExtractBetweenMarkers ==
    (prog = "extract" /\ pc = "done") =>
        /\ (extracted = JNull) <=> ~HasMarker(text, FieldName)
        /\ HasMarker(text, FieldName) =>
              extracted = PyChars(Strip(BetweenMarkers(text, FieldName)))

(***************************************************************************)
(* C13: the rows that get a per-row score entry are the row keys present   *)
(* in both files, each scored exactly once.                                *)
(***************************************************************************)
\* the items of a descriptions file
DescsIn(f) == JsonLoads(f.text).val.v

\* the row keys present in a descriptions file
RowKeysIn(f) == {DictGet(DescsIn(f)[j], "row") : j \in 1..Len(DescsIn(f))}

\* the row keys a descriptions file gives a non-empty text
RowKeysWithText(f) ==
    {DictGet(DescsIn(f)[j], "row") :
        j \in {h \in 1..Len(DescsIn(f)) : Truthy(DictGet(DescsIn(f)[h], "concatenated"))}}

ScoredRows ==
    {DictGet(combined_per_row_scores[j], "row") : j \in 1..Len(combined_per_row_scores)}

ScoredOnce ==
    \A j, h \in 1..Len(combined_per_row_scores) :
        DictGet(combined_per_row_scores[j], "row") = DictGet(combined_per_row_scores[h], "row")
            => j = h

MetricsOver == prog = "metrics" /\ pc \in {"terminated", "done"}

\* as stated: every row key present in both files is scored
C13_ScoredRowsAreCommonRowKeys ==
    /\ prog = "metrics" => (ScoredOnce /\ ScoredRows \subseteq
                               (RowKeysIn(predictions_json) \cap RowKeysIn(references_json)))
    /\ MetricsOver => ScoredRows = RowKeysIn(predictions_json) \cap RowKeysIn(references_json)

\* C13 amended: the scored rows are the row keys that both files give a
\* non-empty concatenated text, each scored exactly once
C13_ScoredRowsAreCommonRowsWithText ==
    /\ prog = "metrics" => (ScoredOnce /\ ScoredRows \subseteq
                               (RowKeysWithText(predictions_json) \cap RowKeysWithText(references_json)))
    /\ MetricsOver =>
          ScoredRows = RowKeysWithText(predictions_json) \cap RowKeysWithText(references_json)

\* predictions for rows 1 and 2, references for rows 2 and 3: row 2 alone is scored
C13_Witness ==
    /\ prog = "metrics" /\ pc = "done"
    /\ RowKeysIn(predictions_json) = {JInt(1), JInt(2)}
    /\ RowKeysIn(references_json) = {JInt(2), JInt(3)}
    /\ ScoredRows = {JInt(2)}

(***************************************************************************)
(* C14: process_excel_file returns exactly one record per row with a       *)
(* non-empty L1 cell, keyed by that row, holding the joined L2 description *)
(* contents of the rows up to the next such row and their number; no       *)
(* record has another row key.                                             *)
(***************************************************************************)
\* the indexes of the sheet rows whose L1 cell is non-empty
L1Rows == {j \in 1..Len(sheet) : Truthy(get_requirement_from_excel(sheet[j].l1))}

\* the index after the block that starts at index j
BlockEnd(j) ==
    CHOOSE q \in (j + 1)..(Len(sheet) + 1) :
        /\ q > Len(sheet) \/ q \in L1Rows
        /\ \A h \in (j + 1)..(q - 1) : h \notin L1Rows

\* the L2 description contents of the block that starts at index j
BlockDescs(j) ==
    [h \in 1..(BlockEnd(j) - j) |->
        extract_content(get_requirement_from_excel(sheet[j + h - 1].l2).v, FieldName)]

C14_OneRecordPerL1Row ==
    (prog = "excel" /\ pc = "done") =>
        /\ \A j \in L1Rows :
              \E k \in 1..Len(excel_results) :
                 /\ excel_results[k] = BlockRecord(j + 1, BlockDescs(j))
                 /\ \A h \in 1..Len(excel_results) :
                       DictGet(excel_results[h], "row") = JInt(j + 1) => h = k
        /\ \A k \in 1..Len(excel_results) :
              \E j \in L1Rows : DictGet(excel_results[k], "row") = JInt(j + 1)

(***************************************************************************)
(* C15: the evaluator evaluates an item only if its row key is in both     *)
(* input files: every evaluation record, in the accumulator and in the     *)
(* output file, has a row_number of the decomposition file that is a 'row' *)
(* of the original-requirements file; an item whose row key has no         *)
(* original requirement is skipped with no LLM call and the loop goes on.  *)
(***************************************************************************)
\* the row_number keys of the items of the decomposition file
DecomposedRowSet ==
    {DictGet(RecordsIn(decomposed_output_json)[k], "row_number") :
        k \in 1..Len(RecordsIn(decomposed_output_json))}

\* the loop is at an item whose row key is no 'row' of data.json
AtItemWithoutOriginal ==
    /\ prog = "evaluator" /\ pc = "loop"
    /\ i <= Len(decomposed_data.v)
    /\ DictGet(decomposed_data.v[i], "row_number") \notin InputRowSet

C15_EvaluatedRowsInBothFiles ==
    /\ [](prog = "evaluator" =>
            /\ RowNumbers(all_evaluations) \subseteq (DecomposedRowSet \cap InputRowSet)
            /\ RowNumbers(RecordsIn(evaluation_output_json))
                  \subseteq (DecomposedRowSet \cap InputRowSet))
    /\ [][AtItemWithoutOriginal =>
            /\ invocations' = invocations
            /\ api_calls' = api_calls
            /\ net_requests' = net_requests
            /\ all_evaluations' = all_evaluations
            /\ pc' = "loop"
            /\ i' = i + 1]_vars

\* an item with a usable list and a row key absent from data.json has been
\* passed over, and a later item has been evaluated and saved
C15_Witness ==
    /\ prog = "evaluator" /\ pc = "done"
    /\ \E k \in 1..Len(decomposed_data.v) :
          /\ Truthy(DictGet(decomposed_data.v[k], "row_number"))
          /\ Truthy(DictGet(decomposed_data.v[k], "decomposed_list"))
          /\ DictGet(decomposed_data.v[k], "row_number") \notin InputRowSet
          /\ k < Len(decomposed_data.v)
    /\ Len(RecordsIn(evaluation_output_json)) > 0

(***************************************************************************)
(* C16: at most one request to the LLM is outstanding; the request of an   *)
(* item is issued only when every earlier request has come back, and the   *)
(* requests are issued in input-list order.                                *)
(***************************************************************************)
C16_OneCallAtATime ==
    /\ [](prog \in {"decomposer", "evaluator"} =>
            /\ in_flight <= 1
            /\ \A j, h \in 1..Len(request_log) : j < h => request_log[j] < request_log[h])
    /\ [][(net_requests' # net_requests \/ api_calls' # api_calls) =>
            /\ in_flight = 0
            /\ net_requests' # net_requests =>
                  /\ in_flight' = 1
                  /\ request_log' = Append(request_log, i)]_vars

\* the request of the second item is outstanding after that of the first
\* item has come back
C16_Witness ==
    /\ prog \in {"decomposer", "evaluator"}
    /\ pc = "await"
    /\ request_log = <<1, 2>>
    /\ in_flight = 1

(***************************************************************************)
(* C17: the output file is written at most once, after the loop has taken  *)
(* its last item; until then it is as it was at the start of the run.      *)
(***************************************************************************)
\* the list the loop of the running driver goes over
LoopList ==
    IF prog = "decomposer" THEN all_original_requirements ELSE decomposed_data.v

\* the output file of the running driver
OutputFile ==
    IF prog = "decomposer" THEN decomposed_output_json ELSE evaluation_output_json

C17_WrittenOnceAfterLoop ==
    /\ [](prog \in {"decomposer", "evaluator"} =>
            (pc # "done" => OutputFile = NoFile))
    /\ [][(prog = "decomposer" \/ prog = "evaluator") =>
            /\ OutputFile' # OutputFile =>
                  (pc = "loop" /\ i > Len(LoopList) /\ pc' = "done")
            /\ pc = "done" => UNCHANGED pc]_vars

\* a run that ended inside the loop with results collected and nothing saved
C17_Witness ==
    /\ prog \in {"decomposer", "evaluator"}
    /\ pc = "crashed"
    /\ i <= Len(LoopList)
    /\ Len(all_decomposed_results) + Len(all_evaluations) > 0
    /\ OutputFile = NoFile

(***************************************************************************)
(* C18: the accumulator of the decomposer only grows by appending, at most *)
(* one record per processed input record; its records, and those of the    *)
(* output file, follow the order of their rows in the input list and are   *)
(* no more than the input records.                                         *)
(***************************************************************************)
RECURSIVE IsSubseq(_, _)
\* a is b with some elements left out
IsSubseq(a, b) ==
    IF Len(a) = 0 THEN TRUE
    ELSE IF Len(b) = 0 THEN FALSE
    ELSE IF a[1] = b[1] THEN IsSubseq(Tail(a), Tail(b))
    ELSE IsSubseq(a, Tail(b))

\* the input records the loop has gone past
Processed == IF i = 0 THEN 0 ELSE i - 1

InputRowSeq ==
    [k \in 1..Len(all_original_requirements) |->
        DictGet(all_original_requirements[k], "row")]

RowNumberSeq(records) == [k \in 1..Len(records) |-> DictGet(records[k], "row_number")]

C18_AccumulatorAppendOnly ==
    /\ [](prog = "decomposer" =>
            /\ Len(all_decomposed_results) <= Processed
            /\ Processed <= Len(all_original_requirements)
            /\ IsSubseq(RowNumberSeq(all_decomposed_results),
                        SubSeq(InputRowSeq, 1, Processed))
            /\ decomposed_output_json # NoFile =>
                  RecordsIn(decomposed_output_json) = all_decomposed_results)
    /\ [][prog = "decomposer" =>
            \/ all_decomposed_results' = all_decomposed_results
            \/ /\ Len(all_decomposed_results') = Len(all_decomposed_results) + 1
               /\ SubSeq(all_decomposed_results', 1, Len(all_decomposed_results))
                     = all_decomposed_results
               /\ i' = i + 1]_vars

\* two records collected and saved, in input order
C18_Witness ==
    /\ prog = "decomposer" /\ pc = "done"
    /\ Len(all_decomposed_results) = 2
    /\ RowNumberSeq(RecordsIn(decomposed_output_json)) = <<JInt(1), JInt(2)>>

=============================================================================
